---- MODULE Spec2Model ----
(***************************************************************************)
(* Model of the grades application: the User, Subject and Grade tables    *)
(* (grades/models.py) and the request handlers of grades/views.py.        *)
(*                                                                         *)
(* Grade values are integers counting thousandths of a point, so 85.126   *)
(* is 85126 and the bounds 0 and 100 of the handlers are 0 and 100000.    *)
(* A stored grade is a DecimalField with two decimal places: a multiple   *)
(* of 10 in this unit.                                                    *)
(*                                                                         *)
(* Every requester is an authenticated user (all views carry              *)
(* IsAuthenticated), named by its primary key.                            *)
(*                                                                         *)
(* Of a User the model keeps the two role flags, of a Subject its         *)
(* existence, of a Grade its student, subject, grade and remarks.  The    *)
(* list and retrieve requests of the router, the public subject list and  *)
(* the updates of a subject's name or description change none of these    *)
(* and are left out.                                                      *)
(***************************************************************************)
EXTENDS Integers, Sequences, FiniteSets, TLC

VARIABLES users, nextUserId, subjects, nextSubjectId, grades, nextGradeId,
          everGraded, response, pending

vars == <<users, nextUserId, subjects, nextSubjectId, grades, nextGradeId,
          everGraded, response, pending>>

db == <<users, nextUserId, subjects, nextSubjectId, grades, nextGradeId, everGraded>>

----------------------------------------------------------------------------
(* Bounds of the model: primary keys are auto-incremented and never reused, *)
(* so each table accepts a bounded number of inserts.                       *)
MaxUserId == 2
MaxSubjectId == 1
MaxGradeId == 2
MaxInflight == 2

UserIds == 1..MaxUserId
SubjectIds == 1..MaxSubjectId
GradeIds == 1..MaxGradeId
Slots == 1..MaxInflight

(* None of Python, NULL of the database. *)
Null == -1

Flags == [is_admin : BOOLEAN, is_student : BOOLEAN]

(* The "grade" member of a request body: absent or null, a string that is *)
(* no number, the string "nan", a JSON array, or a number.                *)
NoValue == [kind |-> "null", v |-> 0]
GradeInputs ==
    {NoValue, [kind |-> "text", v |-> 0], [kind |-> "nan", v |-> 0], [kind |-> "list", v |-> 0]}
    \cup {[kind |-> "num", v |-> n] : n \in {-10, 0, 85126, 100000, 100010}}

(* The "grade" member of a body sent to the generic /grades endpoints,    *)
(* which may also leave the member out.                                   *)
GradeFieldInputs == GradeInputs \cup {[kind |-> "absent", v |-> 0]}

(* Grade.remarks: NULL or a text; "absent" is a body without the member. *)
NoRemarks == "null"
RemarkValues == {NoRemarks, "good"}
RemarkFieldInputs == RemarkValues \cup {"absent"}

----------------------------------------------------------------------------
(* Responses.  Only the subject detail view returns data of the tables.   *)
Reply(status, kind) ==
    [status |-> status, kind |-> kind, students |-> <<>>, total_students |-> 0,
     grade |-> Null, remarks |-> NoRemarks]

Idle == [pc |-> "idle", student |-> 0, subject |-> 0]

(* Grade.objects.filter(subject=..., student=...) *)
Enrollments(subject, student) ==
    {g \in grades : g.subject = subject /\ g.student = student}

(* Grade.objects.filter(subject=...) *)
GradesOf(subject) == {g \in grades : g.subject = subject}

(* User.objects.get(pk=student_id, is_student=True) finds a row *)
IsStudent(id) == id \in DOMAIN users /\ users[id].is_student

(* float(new_grade): the parsed number, or the exception raised *)
ParseFloat(x) ==
    CASE x.kind = "num" -> [exc |-> "none", nan |-> FALSE, v |-> x.v]
      [] x.kind = "nan" -> [exc |-> "none", nan |-> TRUE, v |-> 0]
      [] x.kind = "text" -> [exc |-> "ValueError", nan |-> FALSE, v |-> 0]
      [] OTHER -> [exc |-> "TypeError", nan |-> FALSE, v |-> 0]

(* InRange without the upper bound. *)
InRangeNoUpper(f) == ~f.nan /\ 0 <= f.v

(* 0 <= new_grade <= 100, false of a NaN *)
InRange(f) == ~f.nan /\ 0 <= f.v /\ f.v <= 100000

(* The value the DecimalField(max_digits=5, decimal_places=2) column keeps *)
(* of a float in range: quantized to two places, ties to even.            *)
Quantize(v) ==
    LET q == v \div 10
        r == v % 10
    IN IF r > 5 \/ (r = 5 /\ q % 2 = 1) THEN (q + 1) * 10 ELSE q * 10

NewGrade(student, subject) ==
    [id |-> nextGradeId, student |-> student, subject |-> subject,
     grade |-> Null, remarks |-> NoRemarks]

----------------------------------------------------------------------------
Init ==
    /\ users = (1 :> [is_admin |-> TRUE, is_student |-> TRUE])
    /\ nextUserId = 2
    /\ subjects = {}
    /\ nextSubjectId = 1
    /\ grades = {}
    /\ nextGradeId = 1
    /\ everGraded = {}
    /\ response = Reply(0, "none")
    /\ pending = [p \in Slots |-> Idle]

----------------------------------------------------------------------------
(* EnrollSubjectView.post                                                   *)

(* EnrollStatus without the already-enrolled check. *)
EnrollStatusNoDuplicateCheck(req, subject_id) ==
    IF ~users[req].is_student THEN 403
    ELSE IF subject_id \notin subjects THEN 404
    ELSE 0

(* The checks before the insert: 0 when they all pass. *)
EnrollStatus(req, subject_id) ==
    IF ~users[req].is_student THEN 403
    ELSE IF subject_id \notin subjects THEN 404
    ELSE IF Enrollments(subject_id, req) # {} THEN 400
    ELSE 0

(* EnrollCreate as a get_or_create: no second row for a pair. *)
EnrollCreateIfAbsent(student, subject_id) ==
    /\ nextGradeId <= MaxGradeId
    /\ IF Enrollments(subject_id, student) # {}
       THEN UNCHANGED <<grades, nextGradeId>>
       ELSE /\ grades' = grades \cup {NewGrade(student, subject_id)}
            /\ nextGradeId' = nextGradeId + 1
    /\ response' = Reply(201, "message")
    /\ UNCHANGED <<users, nextUserId, subjects, nextSubjectId, everGraded>>

(* Grade.objects.create(student=request.user, subject=subject) *)
EnrollCreate(student, subject_id) ==
    /\ nextGradeId <= MaxGradeId
    /\ grades' = grades \cup {NewGrade(student, subject_id)}
    /\ nextGradeId' = nextGradeId + 1
    /\ response' = Reply(201, "message")
    /\ UNCHANGED <<users, nextUserId, subjects, nextSubjectId, everGraded>>

(* One request handled without any other request in between. *)
Enroll(req, subject_id) ==
    /\ req \in DOMAIN users
    /\ IF EnrollStatus(req, subject_id) # 0
       THEN response' = Reply(EnrollStatus(req, subject_id), "error") /\ UNCHANGED db
       ELSE EnrollCreate(req, subject_id)
    /\ UNCHANGED pending

(* Two steps of a request that other requests may interleave with: the   *)
(* checks up to the exists() query, then the insert.                      *)
EnrollCheck(p, req, subject_id) ==
    /\ pending[p].pc = "idle"
    /\ req \in DOMAIN users
    /\ IF EnrollStatus(req, subject_id) # 0
       THEN /\ response' = Reply(EnrollStatus(req, subject_id), "error")
            /\ UNCHANGED pending
       ELSE /\ pending' = [pending EXCEPT ![p] =
                              [pc |-> "insert", student |-> req, subject |-> subject_id]]
            /\ UNCHANGED response
    /\ UNCHANGED db

EnrollInsert(p) ==
    /\ pending[p].pc = "insert"
    /\ EnrollCreate(pending[p].student, pending[p].subject)
    /\ pending' = [pending EXCEPT ![p] = Idle]

----------------------------------------------------------------------------
(* RemoveStudentFromSubjectView.delete                                      *)

(* Grade.objects.get(subject=..., student=...): the status of the lookup, *)
(* 0 when exactly one row matches.                                        *)
GetEnrollmentStatus(subject_id, student_id) ==
    IF Enrollments(subject_id, student_id) = {} THEN 404
    ELSE IF Cardinality(Enrollments(subject_id, student_id)) > 1 THEN 500
    ELSE 0

TheEnrollment(subject_id, student_id) ==
    CHOOSE g \in Enrollments(subject_id, student_id) : TRUE

(* RemoveStatus without the already-graded check. *)
RemoveStatusNoGradeCheck(req, subject_id, student_id) ==
    IF ~users[req].is_admin THEN 403
    ELSE IF subject_id \notin subjects THEN 404
    ELSE IF ~IsStudent(student_id) THEN 404
    ELSE IF GetEnrollmentStatus(subject_id, student_id) # 0
         THEN GetEnrollmentStatus(subject_id, student_id)
    ELSE 200

RemoveStatus(req, subject_id, student_id) ==
    IF ~users[req].is_admin THEN 403
    ELSE IF subject_id \notin subjects THEN 404
    ELSE IF ~IsStudent(student_id) THEN 404
    ELSE IF GetEnrollmentStatus(subject_id, student_id) # 0
         THEN GetEnrollmentStatus(subject_id, student_id)
    ELSE IF TheEnrollment(subject_id, student_id).grade # Null THEN 400
    ELSE 200

RemoveStudent(req, subject_id, student_id) ==
    /\ req \in DOMAIN users
    /\ IF RemoveStatus(req, subject_id, student_id) = 200
       THEN /\ grades' = grades \ {TheEnrollment(subject_id, student_id)}
            /\ response' = Reply(200, "message")
       ELSE /\ response' = Reply(RemoveStatus(req, subject_id, student_id), "error")
            /\ UNCHANGED grades
    /\ UNCHANGED <<users, nextUserId, subjects, nextSubjectId, nextGradeId,
                   everGraded, pending>>

----------------------------------------------------------------------------
(* UpdateStudentGradeView.put                                               *)

(* The validation of request.data.get("grade"): 0 when it passes; an     *)
(* exception that is not caught becomes a 500 response.                   *)
ValidateStatus(x) ==
    IF x.kind = "null" THEN 400
    ELSE IF ParseFloat(x).exc = "ValueError" THEN 400
    ELSE IF ParseFloat(x).exc # "none" THEN 500
    ELSE IF ~InRange(ParseFloat(x)) THEN 400
    ELSE 0

UpdateStatus(req, subject_id, student_id, x) ==
    IF ~users[req].is_admin THEN 403
    ELSE IF subject_id \notin subjects THEN 404
    ELSE IF ~IsStudent(student_id) THEN 404
    ELSE IF GetEnrollmentStatus(subject_id, student_id) # 0
         THEN GetEnrollmentStatus(subject_id, student_id)
    ELSE IF ValidateStatus(x) # 0 THEN ValidateStatus(x)
    ELSE 200

(* grade_record.grade = new_grade; grade_record.save() *)
SaveGrade(g, v) == [g EXCEPT !.grade = Quantize(v)]

UpdateStudentGrade(req, subject_id, student_id, x) ==
    /\ req \in DOMAIN users
    /\ IF UpdateStatus(req, subject_id, student_id, x) = 200
       THEN LET g == TheEnrollment(subject_id, student_id)
            IN /\ grades' = (grades \ {g}) \cup {SaveGrade(g, ParseFloat(x).v)}
               /\ everGraded' = everGraded \cup {g.id}
               /\ response' = Reply(200, "message")
       ELSE /\ response' = Reply(UpdateStatus(req, subject_id, student_id, x), "error")
            /\ UNCHANGED <<grades, everGraded>>
    /\ UNCHANGED <<users, nextUserId, subjects, nextSubjectId, nextGradeId, pending>>

----------------------------------------------------------------------------
(* SubjectDetailView.get                                                    *)

(* Grade.Meta.ordering = ['-created_at']: the row created last comes first *)
Latest(S) == CHOOSE g \in S : \A h \in S : h.id <= g.id

RECURSIVE Roster(_)
Roster(S) ==
    IF S = {} THEN <<>>
    ELSE <<[student |-> Latest(S).student, grade |-> Latest(S).grade,
            remarks |-> Latest(S).remarks]>> \o Roster(S \ {Latest(S)})

(* DetailResponse whose student branch does not filter by the requester. *)
DetailResponseAnyRow(req, pk) ==
    IF pk \notin subjects THEN Reply(404, "error")
    ELSE IF users[req].is_admin
    THEN [Reply(200, "roster") EXCEPT !.students = Roster(GradesOf(pk)),
                                      !.total_students = Len(Roster(GradesOf(pk)))]
    ELSE IF users[req].is_student
    THEN IF GradesOf(pk) # {}
         THEN [Reply(200, "own") EXCEPT !.grade = Latest(GradesOf(pk)).grade,
                                        !.remarks = Latest(GradesOf(pk)).remarks]
         ELSE Reply(404, "message")
    ELSE Reply(403, "error")

DetailResponse(req, pk) ==
    IF pk \notin subjects THEN Reply(404, "error")
    ELSE IF users[req].is_admin
    THEN [Reply(200, "roster") EXCEPT !.students = Roster(GradesOf(pk)),
                                      !.total_students = Len(Roster(GradesOf(pk)))]
    ELSE IF users[req].is_student
    THEN IF Enrollments(pk, req) # {}
         THEN [Reply(200, "own") EXCEPT !.grade = Latest(Enrollments(pk, req)).grade,
                                        !.remarks = Latest(Enrollments(pk, req)).remarks]
         ELSE Reply(404, "message")
    ELSE Reply(403, "error")

SubjectDetail(req, pk) ==
    /\ req \in DOMAIN users
    /\ response' = DetailResponse(req, pk)
    /\ UNCHANGED <<db, pending>>

----------------------------------------------------------------------------
(* The generic endpoints of the router: ModelViewSet with                  *)
(* permission_classes = [permissions.IsAuthenticated].                     *)

(* The permission the viewsets ask for: any authenticated requester. *)
ViewSetPermission(req) == req \in DOMAIN users

(* IsAdminOrReadOnly.has_permission, which no view lists in its           *)
(* permission_classes.                                                    *)
SAFE_METHODS == {"GET", "HEAD", "OPTIONS"}
IsAdminOrReadOnly(req, method) ==
    \/ method \in SAFE_METHODS
    \/ req \in DOMAIN users /\ users[req].is_admin

(* UserViewSet.create: UserSerializer writes is_admin and is_student *)
UserCreate(req, flags) ==
    /\ ViewSetPermission(req)
    /\ nextUserId <= MaxUserId
    /\ users' = users @@ (nextUserId :> flags)
    /\ nextUserId' = nextUserId + 1
    /\ response' = Reply(201, "object")
    /\ UNCHANGED <<subjects, nextSubjectId, grades, nextGradeId, everGraded, pending>>

(* UserViewSet.update / partial_update *)
UserUpdate(req, id, flags) ==
    /\ ViewSetPermission(req)
    /\ IF id \notin DOMAIN users
       THEN response' = Reply(404, "error") /\ UNCHANGED users
       ELSE /\ users' = [users EXCEPT ![id] = flags]
            /\ response' = Reply(200, "object")
    /\ UNCHANGED <<nextUserId, subjects, nextSubjectId, grades, nextGradeId,
                   everGraded, pending>>

(* UserViewSet.destroy: Grade.student is on_delete=CASCADE *)
UserDelete(req, id) ==
    /\ ViewSetPermission(req)
    /\ IF id \notin DOMAIN users
       THEN response' = Reply(404, "error") /\ UNCHANGED <<users, grades>>
       ELSE /\ users' = [u \in DOMAIN users \ {id} |-> users[u]]
            /\ grades' = {g \in grades : g.student # id}
            /\ response' = Reply(204, "none")
    /\ UNCHANGED <<nextUserId, subjects, nextSubjectId, nextGradeId, everGraded, pending>>

(* SubjectViewSet.create *)
SubjectCreate(req) ==
    /\ ViewSetPermission(req)
    /\ nextSubjectId <= MaxSubjectId
    /\ subjects' = subjects \cup {nextSubjectId}
    /\ nextSubjectId' = nextSubjectId + 1
    /\ response' = Reply(201, "object")
    /\ UNCHANGED <<users, nextUserId, grades, nextGradeId, everGraded, pending>>

(* DestroyStatus without the associated-grades check. *)
DestroyStatusNoGuard(pk) ==
    IF pk \notin subjects THEN 404 ELSE 204

(* SubjectViewSet.destroy: super().destroy() deletes the subject, and    *)
(* Grade.subject is on_delete=CASCADE.                                    *)
DestroyStatus(pk) ==
    IF pk \notin subjects THEN 404
    ELSE IF GradesOf(pk) # {} THEN 400
    ELSE 204

SubjectDestroy(req, pk) ==
    /\ ViewSetPermission(req)
    /\ IF DestroyStatus(pk) = 204
       THEN /\ subjects' = subjects \ {pk}
            /\ grades' = {g \in grades : g.subject # pk}
            /\ response' = Reply(204, "none")
       ELSE /\ UNCHANGED <<subjects, grades>>
            /\ response' = Reply(DestroyStatus(pk), "error")
    /\ UNCHANGED <<users, nextUserId, nextSubjectId, nextGradeId, everGraded, pending>>

(* GradeSerializer's "grade" field, a DecimalField(max_digits=5,          *)
(* decimal_places=2, min 0, max 100) that allows null.                    *)
ValidGradeField(x) ==
    \/ x.kind \in {"absent", "null"}
    \/ x.kind = "num" /\ x.v % 10 = 0 /\ 0 <= x.v /\ x.v <= 100000

(* serializer.save() on an instance: the members sent replace the fields *)
ApplyFields(g, x, r) ==
    [g EXCEPT !.grade = IF x.kind = "absent" THEN g.grade
                        ELSE IF x.kind = "null" THEN Null ELSE x.v,
              !.remarks = IF r = "absent" THEN g.remarks ELSE r]

(* GradeViewSet.create: student and subject are read-only in              *)
(* GradeSerializer, so the insert has no student_id and the NOT NULL      *)
(* column refuses it.                                                     *)
GradeCreate(req, x, r) ==
    /\ ViewSetPermission(req)
    /\ response' = IF ValidGradeField(x) THEN Reply(500, "error") ELSE Reply(400, "error")
    /\ UNCHANGED <<db, pending>>

(* GradeViewSet.update / partial_update *)
GradeUpdate(req, id, x, r) ==
    /\ ViewSetPermission(req)
    /\ IF \A g \in grades : g.id # id
       THEN response' = Reply(404, "error") /\ UNCHANGED <<grades, everGraded>>
       ELSE IF ~ValidGradeField(x)
       THEN response' = Reply(400, "error") /\ UNCHANGED <<grades, everGraded>>
       ELSE LET g == CHOOSE h \in grades : h.id = id
            IN /\ grades' = (grades \ {g}) \cup {ApplyFields(g, x, r)}
               /\ everGraded' = IF ApplyFields(g, x, r).grade # Null
                                THEN everGraded \cup {id} ELSE everGraded
               /\ response' = Reply(200, "object")
    /\ UNCHANGED <<users, nextUserId, subjects, nextSubjectId, nextGradeId, pending>>

(* GradeViewSet.destroy *)
GradeDelete(req, id) ==
    /\ ViewSetPermission(req)
    /\ IF \A g \in grades : g.id # id
       THEN response' = Reply(404, "error") /\ UNCHANGED grades
       ELSE grades' = {g \in grades : g.id # id} /\ response' = Reply(204, "none")
    /\ UNCHANGED <<users, nextUserId, subjects, nextSubjectId, nextGradeId,
                   everGraded, pending>>

----------------------------------------------------------------------------
(* Requests handled one after the other. *)
Next ==
    \/ \E req \in UserIds, s \in SubjectIds : Enroll(req, s)
    \/ \E req \in UserIds, s \in SubjectIds, u \in UserIds : RemoveStudent(req, s, u)
    \/ \E req \in UserIds, s \in SubjectIds, u \in UserIds, x \in GradeInputs :
          UpdateStudentGrade(req, s, u, x)
    \/ \E req \in UserIds, s \in SubjectIds : SubjectDetail(req, s)
    \/ \E req \in UserIds, f \in Flags : UserCreate(req, f)
    \/ \E req \in UserIds, u \in UserIds, f \in Flags : UserUpdate(req, u, f)
    \/ \E req \in UserIds, u \in UserIds : UserDelete(req, u)
    \/ \E req \in UserIds : SubjectCreate(req)
    \/ \E req \in UserIds, s \in SubjectIds : SubjectDestroy(req, s)
    \/ \E req \in UserIds, x \in GradeFieldInputs, r \in RemarkFieldInputs :
          GradeCreate(req, x, r)
    \/ \E req \in UserIds, id \in GradeIds, x \in GradeFieldInputs, r \in RemarkFieldInputs :
          GradeUpdate(req, id, x, r)
    \/ \E req \in UserIds, id \in GradeIds : GradeDelete(req, id)

Spec == Init /\ [][Next]_vars

(* Enroll requests whose check and insert interleave with other requests, *)
(* over tables whose users and subjects are only added to.                *)
NextRace ==
    \/ \E p \in Slots, req \in UserIds, s \in SubjectIds : EnrollCheck(p, req, s)
    \/ \E p \in Slots : EnrollInsert(p)
    \/ \E req \in UserIds, f \in Flags : UserCreate(req, f)
    \/ \E req \in UserIds : SubjectCreate(req)
    \/ \E req \in UserIds, s \in SubjectIds, u \in UserIds : RemoveStudent(req, s, u)
    \/ \E req \in UserIds, s \in SubjectIds, u \in UserIds, x \in GradeInputs :
          UpdateStudentGrade(req, s, u, x)

SpecRace == Init /\ [][NextRace]_vars

----------------------------------------------------------------------------
(* Properties.                                                              *)

(* C1: every Grade row's grade is null or a number between 0 and 100, in *)
(* every reachable state.                                                 *)
C1_GradeInRange ==
    \A g \in grades : g.grade = Null \/ (0 <= g.grade /\ g.grade <= 100000)

(* A row holds the upper boundary and a later request was refused. *)
C1_Witness ==
    /\ \E g \in grades : g.grade = 100000
    /\ response.status = 400

(* C2: an enroll request of a student for an existing subject is refused *)
(* with 400 and changes no row when the student has a row for the         *)
(* subject, and otherwise answers 201 and adds exactly one row, for the   *)
(* requester and the subject, with a null grade.                          *)
C2_Enroll ==
    [][\A req \in UserIds, s \in SubjectIds :
          (req \in DOMAIN users /\ users[req].is_student /\ s \in subjects
             /\ Enroll(req, s))
          => IF Enrollments(s, req) # {}
             THEN response'.status = 400 /\ grades' = grades
             ELSE /\ response'.status = 201
                  /\ \E g \in grades' :
                        /\ g \notin grades
                        /\ \A h \in grades : h.id # g.id
                        /\ grades' = grades \cup {g}
                        /\ g.student = req /\ g.subject = s /\ g.grade = Null]_vars

(* An enrollment was just created. *)
C2_Witness ==
    /\ response = Reply(201, "message")
    /\ \E g \in grades : g.id = nextGradeId - 1 /\ g.grade = Null

C4_UpdateGrade ==
    [][\A req \in UserIds, s \in SubjectIds, u \in UserIds, x \in GradeInputs :
          (req \in DOMAIN users /\ users[req].is_admin /\ s \in subjects
             /\ IsStudent(u) /\ Cardinality(Enrollments(s, u)) = 1
             /\ UpdateStudentGrade(req, s, u, x))
          => IF x.kind = "num" /\ 0 <= x.v /\ x.v <= 100000
             THEN \E g \in grades :
                     /\ Enrollments(s, u) = {g}
                     /\ grades' = (grades \ {g}) \cup {[g EXCEPT !.grade = x.v]}
                     /\ response'.status = 200
             ELSE response'.status = 400 /\ grades' = grades]_vars

(* C5: a subject-delete request is refused with 400, keeping the subject *)
(* and every row, while a row refers to the subject, deletes the subject  *)
(* when none does, and never removes a row.                               *)
C5_SubjectDestroy ==
    [][\A req \in UserIds, s \in SubjectIds :
          (req \in DOMAIN users /\ SubjectDestroy(req, s))
          => /\ grades' = grades
             /\ s \in subjects =>
                   IF GradesOf(s) # {}
                   THEN response'.status = 400 /\ subjects' = subjects
                   ELSE response'.status = 204 /\ subjects' = subjects \ {s}]_vars

(* A subject that had an enrollment was deleted once the row was gone. *)
C5_Witness ==
    /\ response = Reply(204, "none")
    /\ subjects = {}
    /\ nextSubjectId > 1
    /\ nextGradeId > 1
    /\ Cardinality(DOMAIN users) = nextUserId - 1

(* A create, update or delete request to the generic endpoints. *)
GenericWrite(req) ==
    \/ \E f \in Flags : UserCreate(req, f)
    \/ \E u \in UserIds, f \in Flags : UserUpdate(req, u, f)
    \/ \E u \in UserIds : UserDelete(req, u)
    \/ SubjectCreate(req)
    \/ \E s \in SubjectIds : SubjectDestroy(req, s)
    \/ \E x \in GradeFieldInputs, r \in RemarkFieldInputs : GradeCreate(req, x, r)
    \/ \E id \in GradeIds, x \in GradeFieldInputs, r \in RemarkFieldInputs :
          GradeUpdate(req, id, x, r)
    \/ \E id \in GradeIds : GradeDelete(req, id)

(* C6: a create, update or delete request to the generic endpoints from  *)
(* a requester who is not an admin changes no user, subject or grade.     *)
C6_AdminOnlyWrites ==
    [][\A req \in UserIds :
          (req \in DOMAIN users /\ ~IsAdminOrReadOnly(req, "POST") /\ GenericWrite(req))
          => UNCHANGED <<users, subjects, grades>>]_vars

(* C7: the insert of an enroll request that passed the check adds a row  *)
(* for its student and subject whether or not the pair has a row by then, *)
(* so that two rows for one pair are reachable.                           *)
C7_InsertUnchecked ==
    [][\A p \in Slots :
          (pending[p].pc = "insert" /\ pending'[p].pc = "idle")
          => Cardinality({g \in grades' : /\ g.student = pending[p].student
                                          /\ g.subject = pending[p].subject})
             = Cardinality(Enrollments(pending[p].subject, pending[p].student)) + 1]_vars

(* Two rows for the same student and subject. *)
C7_Witness ==
    \E g, h \in grades : g.id # h.id /\ g.student = h.student /\ g.subject = h.subject

(* C8: a row that has once had a grade is not deleted while its student  *)
(* exists.                                                                *)
C8_GradedRowsKept ==
    [][\A g \in grades :
          (g.id \in everGraded /\ g.student \in DOMAIN users')
          => \E h \in grades' : h.id = g.id]_vars

(* C9: the student of every Grade row has is_student = true. *)
C9_StudentsOnly ==
    \A g \in grades : g.student \in DOMAIN users /\ users[g.student].is_student

(* C10: subject detail of an existing subject gives an admin one entry   *)
(* per row of the subject and their count; gives a student who is no      *)
(* admin the grade and remarks of a row of their own, or 404 without one; *)
(* gives 403 to a requester with neither role; and shows a requester who  *)
(* is no admin no roster.                                                 *)
C10_SubjectDetail ==
    [][\A req \in UserIds, s \in SubjectIds :
          (req \in DOMAIN users /\ s \in subjects /\ SubjectDetail(req, s))
          => LET rows == GradesOf(s)
                 own == Enrollments(s, req)
                 r == response'
                 Entry(g) == [student |-> g.student, grade |-> g.grade,
                              remarks |-> g.remarks]
             IN IF users[req].is_admin
                THEN /\ r.status = 200
                     /\ r.total_students = Cardinality(rows)
                     /\ Len(r.students) = Cardinality(rows)
                     /\ \A g \in rows : \E i \in 1..Len(r.students) : r.students[i] = Entry(g)
                     /\ \A i \in 1..Len(r.students) : \E g \in rows : r.students[i] = Entry(g)
                ELSE /\ r.students = <<>>
                     /\ IF ~users[req].is_student THEN r.status = 403
                        ELSE IF own = {} THEN r.status = 404 /\ r.grade = Null
                        ELSE /\ r.status = 200
                             /\ \E g \in own : r.grade = g.grade /\ r.remarks = g.remarks]_vars

(* A student who is no admin was shown their own grade while another row *)
(* of the subject holds a different one.                                  *)
C10_Witness ==
    /\ response.status = 200
    /\ response.kind = "own"
    /\ response.grade # Null
    /\ \E g \in grades : g.grade # Null /\ g.grade # response.grade

====
